---- MODULE Spec2Model ----
(***************************************************************************)
(* A model of disk_scanner.py: the size resolver, the recursive directory  *)
(* aggregator, the top-N selection, the hierarchy printer and the          *)
(* scan_system / main control flow with its thread pool.                   *)
(*                                                                         *)
(* Sizes are bytes.  The thresholds of the program (MIN_FILE_SIZE,         *)
(* MIN_DIR_SIZE_HIERARCHY, MAX_RESULTS) are scaled down to a few blocks /  *)
(* a few records so that the bounded file systems cross them.              *)
(***************************************************************************)
EXTENDS Integers, Sequences, FiniteSets, TLC

\* ---------------------------------------------------------------- bounds
\* Number of directories below the scan root.
MaxDirs == 2
\* Largest st_blocks of a file in a modelled file system.
MaxBlocks == 1
\* Longest stream of records fed to the top-N selection.
MaxLen == 4
\* Largest st_blocks of a record of such a stream.
MaxStreamBlocks == 2
\* Largest min_size, in blocks, the hierarchy is printed with.
MaxThreshold == 3
\* Largest os.cpu_count().
MaxCpu == 2

\* ------------------------------------------------------- program constants
\* os.stat(...).st_blocks * 512
BLOCK == 512
\* 10 MiB in the program; scaled to one block.
MIN_FILE_SIZE == 512
\* 500 MiB in the program; scaled to two blocks.
MIN_DIR_SIZE_HIERARCHY == 1024
\* 100 in the program; scaled to two records.
MAX_RESULTS == 2

\* ------------------------------------------------------------ file system
\* The scan root (start_path) is directory 0; the others are 1..MaxDirs and a
\* directory's number stands for its full path.
start_path == 0
Dirs == 1..MaxDirs
AllDirs == 0..MaxDirs

\* Name prefixes of a directory entry; the last one abbreviates the reserved
\* name 'System Volume Information' as one token.
Prefixes == { <<>>, <<".">>, <<"$">>, <<"System Volume Information">> }

\* How a directory answers the calls made on it:
\*   ok          - can be listed
\*   denied      - os.scandir / os.listdir on it raises an OSError
\*   entry_error - is_file()/is_dir() on its entry raises an OSError
\*   deep        - aggregating it exhausts the interpreter stack (a chain of
\*                 nested directories longer than the recursion limit), which
\*                 raises RecursionError, not an OSError
Access == {"ok", "denied", "entry_error", "deep"}

\* Faults are injected on plainly named directories.
DirProfiles ==
    { [prefix |-> p, access |-> "ok"] : p \in Prefixes }
    \cup { [prefix |-> <<>>, access |-> a] : a \in Access }

\* A directory holds at most one file.  Files are fully allocated: st_size is
\* st_blocks * 512.
NoFile == [present |-> FALSE, st_blocks |-> 0, stat_ok |-> TRUE]
FileEntries ==
    { NoFile }
    \cup { [present |-> TRUE, st_blocks |-> b, stat_ok |-> TRUE] : b \in 1..MaxBlocks }
    \cup { [present |-> TRUE, st_blocks |-> MaxBlocks, stat_ok |-> FALSE] }

\* Directory trees: the parent of a directory has a smaller number.
Parents == { p \in [Dirs -> AllDirs] : \A d \in Dirs : p[d] < d }

OkProfile == [prefix |-> <<>>, access |-> "ok"]

\* File systems under an accessible root whose own file is one of RootFiles.
FileSystems(RootFiles) ==
    { [parent |-> p, profile |-> q,
       file |-> [d \in AllDirs |-> IF d = start_path THEN r ELSE f[d]]] :
        p \in Parents, q \in [Dirs -> DirProfiles],
        f \in [Dirs -> FileEntries], r \in RootFiles }

access(fsys, d) == IF d = start_path THEN "ok" ELSE fsys.profile[d].access

\* os.path.basename of a directory: its prefix followed by its own number; the
\* root's is empty.
basename(fsys, d) ==
    IF d = start_path THEN <<>> ELSE fsys.profile[d].prefix \o <<"d", ToString(d)>>

children(fsys, d) == { c \in Dirs : fsys.parent[c] = d }

\* str.startswith with one prefix.
startswith1(s, p) == Len(s) >= Len(p) /\ SubSeq(s, 1, Len(p)) = p

\* d.startswith(('.', '$', 'System Volume Information'))
startswith(s) ==
    \/ startswith1(s, <<".">>)
    \/ startswith1(s, <<"$">>)
    \/ startswith1(s, <<"System Volume Information">>)

\* ----------------------------------------------------------- SizeResolver
\* os.path.getsize: st_size, or an OSError
getsize_ok(f) == f.stat_ok
getsize(f) == f.st_blocks * BLOCK

\* get_actual_disk_size, non-Windows branch.  stat_raises: an exception is
\* raised inside the first try block (the bare except catches any).
get_actual_disk_size(f, stat_raises) ==
    IF f.stat_ok /\ ~stat_raises
    THEN f.st_blocks * BLOCK
    ELSE IF getsize_ok(f) THEN getsize(f) ELSE 0

\* ------------------------------------------------------------- Aggregator
EmptyDict == [x \in {} |-> 0]

Returned(size, subdirs) == [raised |-> FALSE, size |-> size, subdirs |-> subdirs]
Raised == [raised |-> TRUE, size |-> 0, subdirs |-> EmptyDict]

RECURSIVE SumOver(_, _)
SumOver(f, S) ==
    IF S = {} THEN 0
    ELSE LET x == CHOOSE y \in S : TRUE IN f[x] + SumOver(f, S \ {x})

\* Size added by the file entries of a directory (lines 124-127).
file_total(fsys, path) ==
    IF fsys.file[path].present
    THEN get_actual_disk_size(fsys.file[path], FALSE)
    ELSE 0

\* The entries on which is_dir() answers True (line 128).
dir_entries(fsys, path) ==
    { c \in children(fsys, path) : access(fsys, c) # "entry_error" }

\* Mutant: empty subdirectories are recorded too.
keep_subdir_any(subdir_size) == subdir_size >= 0

\* The subdirectories recorded in the structure (line 131).
keep_subdir(subdir_size) == subdir_size > 0

\* Mutant: the listing error is not caught.
scandir_failed_propagates == Raised

\* The outer except clause (lines 137-139).
scandir_failed == Returned(0, EmptyDict)

RECURSIVE get_dir_size_and_subdirs(_, _)
get_dir_size_and_subdirs(fsys, path) ==
    IF access(fsys, path) = "denied"
    THEN scandir_failed
    ELSE LET entries == dir_entries(fsys, path)
             sub == [c \in entries |-> get_dir_size_and_subdirs(fsys, c)]
         IN  IF access(fsys, path) = "deep" \/ \E c \in entries : sub[c].raised
             THEN Raised
             ELSE LET kept == { c \in entries : keep_subdir(sub[c].size) }
                      sizes == [c \in kept |-> sub[c].size]
                  IN  Returned(file_total(fsys, path) + SumOver(sizes, kept),
                               [c \in kept |-> <<sub[c].size, sub[c].subdirs>>])

\* ------------------------------------------------------------ TopNSelector
\* is_cloud_file on a non-Windows platform (lines 53-54).
is_cloud_file(path) == FALSE

\* key=lambda x: x[1]
key(x) == x[2]

\* Mutant: a record goes in front of the records of its own size.
RECURSIVE insert_desc_unstable(_, _)
insert_desc_unstable(sorted, r) ==
    IF sorted = <<>> THEN <<r>>
    ELSE IF key(Head(sorted)) > key(r)
         THEN <<Head(sorted)>> \o insert_desc_unstable(Tail(sorted), r)
         ELSE <<r>> \o sorted

\* list.sort is stable, also with reverse=True: a record goes behind the
\* records whose key is at least its own.
RECURSIVE insert_desc(_, _)
insert_desc(sorted, r) ==
    IF sorted = <<>> THEN <<r>>
    ELSE IF key(Head(sorted)) >= key(r)
         THEN <<Head(sorted)>> \o insert_desc(Tail(sorted), r)
         ELSE <<r>> \o sorted

RECURSIVE sorted_desc(_)
sorted_desc(items) ==
    IF items = <<>> THEN <<>>
    ELSE insert_desc(sorted_desc(SubSeq(items, 1, Len(items) - 1)), items[Len(items)])

\* Mutant: the sorted list is not cut to n records.
nlargest_untruncated(n, items) == sorted_desc(items)

\* heapq.nlargest(n, items, key): sorted(items, key=key, reverse=True)[:n]
nlargest(n, items) ==
    LET all == sorted_desc(items)
    IN  SubSeq(all, 1, IF n < Len(all) THEN n ELSE Len(all))

\* Lines 200-206: a file of at least MIN_FILE_SIZE is appended to large_files.
is_large(file_size) == file_size >= MIN_FILE_SIZE

append_large(files, path, file_size) ==
    IF is_large(file_size)
    THEN Append(files, <<path, file_size, is_cloud_file(path)>>)
    ELSE files

\* -------------------------------------------------------- HierarchyFilter
RECURSIVE Pow1024(_)
Pow1024(k) == IF k = 0 THEN 1 ELSE 1024 * Pow1024(k - 1)

Units == <<"B", "KB", "MB", "GB", "TB">>

\* The unit format_size stops at: the first whose value is below 1024, or TB.
RECURSIVE unit_index(_, _)
unit_index(size_bytes, k) ==
    IF size_bytes < 1024 * Pow1024(k - 1) \/ k = Len(Units) THEN k
    ELSE unit_index(size_bytes, k + 1)

\* format_size: f"{size_bytes:.2f} {unit}", as the number of hundredths shown
\* (the exact quotient rounded half to even) and the unit.
format_size(size_bytes) ==
    IF size_bytes < 0 THEN [hundredths |-> 0, unit |-> "B"]
    ELSE LET k == unit_index(size_bytes, 1)
             d == Pow1024(k - 1)
             q == (size_bytes * 100) \div d
             r == (size_bytes * 100) % d
             up == IF 2 * r > d THEN 1 ELSE IF 2 * r = d THEN q % 2 ELSE 0
         IN  [hundredths |-> q + up, unit |-> Units[k]]

\* The items of a structure in the order they were inserted (the order of the
\* listing, which the model takes to be that of the directory numbers).
RECURSIVE items_from(_, _)
items_from(structure, d) ==
    IF d > MaxDirs THEN <<>>
    ELSE (IF d \in DOMAIN structure THEN <<<<d, structure[d][1]>>>> ELSE <<>>)
         \o items_from(structure, d + 1)

\* sorted(structure.items(), key=lambda x: x[1][0], reverse=True)
sorted_subdirs(structure) == sorted_desc(items_from(structure, 1))

\* Mutant: every subdirectory is printed.
is_shown_always(subdir_size, min_size) == TRUE

\* Line 162.
is_shown(subdir_size, min_size) == subdir_size >= min_size

\* The line print_dir_hierarchy writes for a directory (lines 149-155): the
\* indentation, the name and the formatted size; node is the path it is about.
output_line(fsys, path, size, depth) ==
    [node |-> path,
     indent |-> depth,
     dir_name |-> IF basename(fsys, path) # <<>> THEN basename(fsys, path) ELSE <<"/">>,
     size_text |-> format_size(size)]

RECURSIVE print_dir_hierarchy(_, _, _, _, _, _)
RECURSIVE print_subdirs(_, _, _, _, _)

\* The lines written, in order.
print_dir_hierarchy(fsys, path, size, structure, depth, min_size) ==
    <<output_line(fsys, path, size, depth)>>
    \o print_subdirs(fsys, sorted_subdirs(structure), structure, depth, min_size)

\* The loop of lines 161-164 over the sorted subdirectories.
print_subdirs(fsys, subdirs, structure, depth, min_size) ==
    IF subdirs = <<>> THEN <<>>
    ELSE LET subdir_path == Head(subdirs)[1]
             subdir_size == structure[subdir_path][1]
             subdir_structure == structure[subdir_path][2]
         IN  (IF is_shown(subdir_size, min_size)
              THEN print_dir_hierarchy(fsys, subdir_path, subdir_size,
                                       subdir_structure, depth + 1, min_size)
              ELSE <<>>)
             \o print_subdirs(fsys, Tail(subdirs), structure, depth, min_size)

\* -------------------------------------------------------------- Scheduler
\* os.walk(start_path, topdown=True, onerror=None) with the filter of line 192,
\* flattened to the files it hands to the loop of line 195, in order.  An entry
\* whose is_dir() raises is listed among the files and cannot be stat'ed; a
\* directory that cannot be listed yields nothing.
Unstatable == [present |-> TRUE, st_blocks |-> 0, stat_ok |-> FALSE]

RECURSIVE os_walk(_, _)
RECURSIVE walk_subdirs(_, _, _)

os_walk(fsys, root) ==
    IF access(fsys, root) = "denied" THEN <<>>
    ELSE (IF fsys.file[root].present THEN <<<<root, fsys.file[root]>>>> ELSE <<>>)
         \o walk_subdirs(fsys, root, 1)

walk_subdirs(fsys, root, c) ==
    IF c > MaxDirs THEN <<>>
    ELSE (IF c \notin children(fsys, root) THEN <<>>
          ELSE IF access(fsys, c) = "entry_error" THEN <<<<c, Unstatable>>>>
          ELSE IF startswith(basename(fsys, c)) THEN <<>>
          ELSE os_walk(fsys, c))
         \o walk_subdirs(fsys, root, c + 1)

\* Lines 226-228: the top-level directories, in the order of the listing.
RECURSIVE list_top_dirs(_, _)
list_top_dirs(fsys, c) ==
    IF c > MaxDirs THEN <<>>
    ELSE (IF /\ c \in children(fsys, start_path)
             /\ access(fsys, c) # "entry_error"
             /\ ~startswith(basename(fsys, c))
          THEN <<c>> ELSE <<>>)
         \o list_top_dirs(fsys, c + 1)

\* min(10, os.cpu_count() or 4); cpu_count 0 stands for None.
max_workers(cpu_count) ==
    LET n == IF cpu_count = 0 THEN 4 ELSE cpu_count
    IN  IF n < 10 THEN n ELSE 10

\* Mutant: the pool starts a thread for every queued task.
has_idle_worker_unbounded(n_running, cpu_count) == TRUE

\* ThreadPoolExecutor runs at most max_workers tasks at a time.
has_idle_worker(n_running, cpu_count) == n_running < max_workers(cpu_count)

\* Mutant: a future counts as finished as soon as its task has started.
future_done_early(state) == state \in {"running", "done", "raised"}

\* Future.result() and shutdown(wait=True) return once the task has finished.
future_done(state) == state \in {"done", "raised"}

VARIABLES
    fs,             \* the file system under start_path
    agg,            \* SpecAgg: the result of the aggregator on every directory
    stream,         \* the files the flat walk has still to visit: <<path, entry>>
    scanned,        \* the files it has visited: <<path, size>>
    large_files,    \* scan_system's large_files
    largest_files,  \* scan_system's largest_files
    largest_dirs,   \* scan_system's largest_dirs
    ranked,         \* which of the two selections have been made
    hier,           \* SpecHier: the arguments print_dir_hierarchy is called with
    printed,        \* SpecHier: the lines it wrote
    pc,             \* where the main thread stands in main / scan_system
    cpu,            \* os.cpu_count(), 0 for None
    top_dirs,       \* scan_system's top_dirs
    submitted,      \* the number of futures submitted
    wstate,         \* the state of the task of each top-level directory
    wresult,        \* what a finished task returned
    runs,           \* how many times a directory's aggregation was started
    collected,      \* the number of futures the collecting loop has been through
    dir_sizes,      \* scan_system's dir_sizes, as its items in insertion order
    dir_structures, \* scan_system's dir_structures
    interrupted,    \* a KeyboardInterrupt was raised while scan_system ran
    report          \* what main printed and wrote of the scan's results

aggVars == <<fs, agg>>
topVars == <<stream, scanned, large_files, largest_files, largest_dirs, ranked>>
hierVars == <<hier, printed>>
scanVars == <<pc, cpu, top_dirs, submitted, wstate, wresult, runs, collected,
              dir_sizes, dir_structures, interrupted, report>>
vars == <<fs, agg, stream, scanned, large_files, largest_files, largest_dirs, ranked,
          hier, printed, pc, cpu, top_dirs, submitted, wstate, wresult, runs,
          collected, dir_sizes, dir_structures, interrupted, report>>

NotRun == [d \in {} |-> Raised]

IdleFs == [parent |-> [d \in Dirs |-> start_path],
           profile |-> [d \in Dirs |-> OkProfile],
           file |-> [d \in AllDirs |-> NoFile]]

TopIdle ==
    /\ stream = <<>>
    /\ scanned = <<>>
    /\ large_files = <<>>
    /\ largest_files = <<>>
    /\ largest_dirs = <<>>
    /\ ranked = {}

NoCall == [path |-> start_path, size |-> 0, structure |-> EmptyDict, min_size |-> 0]

HierIdle ==
    /\ hier = NoCall
    /\ printed = <<>>

NoReport == [printed |-> FALSE, file_written |-> FALSE, files |-> <<>>,
             dirs |-> <<>>, hierarchy |-> <<>>]

ScanStart ==
    /\ top_dirs = <<>>
    /\ submitted = 0
    /\ wstate = [d \in Dirs |-> "none"]
    /\ wresult = [d \in Dirs |-> Raised]
    /\ runs = [d \in Dirs |-> 0]
    /\ collected = 0
    /\ dir_sizes = <<>>
    /\ dir_structures = EmptyDict
    /\ interrupted = FALSE
    /\ report = NoReport

ScanIdle ==
    /\ pc = "idle"
    /\ cpu = 1
    /\ ScanStart

InitAgg ==
    /\ fs \in FileSystems({NoFile})
    /\ agg = NotRun
    /\ TopIdle
    /\ HierIdle
    /\ ScanIdle

\* get_dir_size_and_subdirs is applied to every directory of the tree.
Aggregate ==
    /\ agg = NotRun
    /\ agg' = [d \in AllDirs |-> get_dir_size_and_subdirs(fs, d)]
    /\ UNCHANGED <<fs, topVars, hierVars, scanVars>>

NextAgg == Aggregate

SpecAgg == InitAgg /\ [][NextAgg]_vars

\* Streams of readable files; a record's path is its place in the stream.
StreamOf(blocks) ==
    [i \in 1..Len(blocks) |->
        <<i, [present |-> TRUE, st_blocks |-> blocks[i], stat_ok |-> TRUE]>>]

Streams ==
    UNION { { StreamOf(b) : b \in [1..n -> 0..MaxStreamBlocks] } : n \in 0..MaxLen }

\* The stream of the documented scenario: sizes 5, 3, 9, 1, 7 (in blocks).
ExampleStream == StreamOf(<<5, 3, 9, 1, 7>>)

InitTop ==
    /\ fs = IdleFs
    /\ agg = NotRun
    /\ stream \in Streams \cup {ExampleStream}
    /\ scanned = <<>>
    /\ large_files = <<>>
    /\ largest_files = <<>>
    /\ largest_dirs = <<>>
    /\ ranked = {}
    /\ HierIdle
    /\ ScanIdle

\* One turn of the loop over files (lines 195-209).
ScanFile ==
    /\ stream # <<>>
    /\ ranked = {}
    /\ LET path == Head(stream)[1]
           file_size == get_actual_disk_size(Head(stream)[2], FALSE)
       IN  /\ large_files' = append_large(large_files, path, file_size)
           /\ scanned' = Append(scanned, <<path, file_size>>)
    /\ stream' = Tail(stream)
    /\ UNCHANGED <<aggVars, hierVars, scanVars, largest_files, largest_dirs, ranked>>

\* Line 214.
SelectFiles ==
    /\ stream = <<>>
    /\ "files" \notin ranked
    /\ largest_files' = nlargest(MAX_RESULTS, large_files)
    /\ ranked' = ranked \cup {"files"}
    /\ UNCHANGED <<aggVars, hierVars, scanVars, stream, scanned, large_files, largest_dirs>>

\* Line 256, on a dir_sizes holding the scanned records in insertion order.
SelectDirs ==
    /\ stream = <<>>
    /\ "dirs" \notin ranked
    /\ largest_dirs' = nlargest(MAX_RESULTS, scanned)
    /\ ranked' = ranked \cup {"dirs"}
    /\ UNCHANGED <<aggVars, hierVars, scanVars, stream, scanned, large_files, largest_files>>

NextTop == ScanFile \/ SelectFiles \/ SelectDirs

SpecTop == InitTop /\ [][NextTop]_vars

\* File systems without faults, every directory plainly named.
PlainFileSystems ==
    { [parent |-> p, profile |-> [d \in Dirs |-> OkProfile],
       file |-> [d \in AllDirs |-> IF d = start_path THEN NoFile ELSE f[d]]] :
        p \in Parents, f \in [Dirs -> FileEntries] }

Thresholds == { k * BLOCK : k \in 0..MaxThreshold } \cup {MIN_DIR_SIZE_HIERARCHY}

\* The hierarchy is printed for an aggregated directory of a file system.
InitHier ==
    /\ fs \in PlainFileSystems
    /\ agg = NotRun
    /\ TopIdle
    /\ ScanIdle
    /\ printed = <<>>
    /\ \E d \in AllDirs, m \in Thresholds :
          LET r == get_dir_size_and_subdirs(fs, d)
          IN  hier = [path |-> d, size |-> r.size, structure |-> r.subdirs, min_size |-> m]

HierarchyCall ==
    /\ printed = <<>>
    /\ printed' = print_dir_hierarchy(fs, hier.path, hier.size, hier.structure,
                                      0, hier.min_size)
    /\ UNCHANGED <<aggVars, topVars, scanVars, hier>>

NextHier == HierarchyCall

SpecHier == InitHier /\ [][NextHier]_vars

\* --------------------------------------------------- main and scan_system
\* The file systems scanned: every directory holds one file of one block.
ScanProfiles ==
    { [prefix |-> <<>>, access |-> a] : a \in Access }
    \cup { [prefix |-> <<".">>, access |-> "ok"] }

OneBlock == [present |-> TRUE, st_blocks |-> 1, stat_ok |-> TRUE]

ScanFileSystems ==
    { [parent |-> p, profile |-> q, file |-> [d \in AllDirs |-> OneBlock]] :
        p \in Parents, q \in [Dirs -> ScanProfiles] }

\* main has called scan_system on an existing start_path; the flat walk begins.
Init ==
    /\ fs \in ScanFileSystems
    /\ cpu \in 0..MaxCpu
    /\ agg = NotRun
    /\ stream = os_walk(fs, start_path)
    /\ scanned = <<>>
    /\ large_files = <<>>
    /\ largest_files = <<>>
    /\ largest_dirs = <<>>
    /\ ranked = {}
    /\ HierIdle
    /\ pc = "walk"
    /\ ScanStart

poolVars == <<wstate, wresult, runs>>

\* One turn of the loop over files (lines 195-209).  in_stat: a
\* KeyboardInterrupt is raised inside the try block of get_actual_disk_size,
\* whose bare except takes it for a failure of os.stat.
WalkTurn(in_stat) ==
    /\ pc = "walk"
    /\ stream # <<>>
    /\ LET path == Head(stream)[1]
           file_size == get_actual_disk_size(Head(stream)[2], in_stat)
       IN  /\ large_files' = append_large(large_files, path, file_size)
           /\ scanned' = Append(scanned, <<path, file_size>>)
    /\ stream' = Tail(stream)
    /\ interrupted' = (interrupted \/ in_stat)
    /\ UNCHANGED <<aggVars, hierVars, largest_files, largest_dirs, ranked, pc, cpu,
                   top_dirs, submitted, poolVars, collected, dir_sizes,
                   dir_structures, report>>

WalkFile == WalkTurn(FALSE)

InterruptInStat == WalkTurn(TRUE)

\* Line 214, at the end of the walk.
RankFiles ==
    /\ pc = "walk"
    /\ stream = <<>>
    /\ largest_files' = nlargest(MAX_RESULTS, large_files)
    /\ ranked' = ranked \cup {"files"}
    /\ pc' = "list"
    /\ UNCHANGED <<aggVars, hierVars, stream, scanned, large_files, largest_dirs, cpu,
                   top_dirs, submitted, poolVars, collected, dir_sizes,
                   dir_structures, interrupted, report>>

\* Lines 225-238; the pool is created at line 240.
ListTopDirs ==
    /\ pc = "list"
    /\ top_dirs' = list_top_dirs(fs, 1)
    /\ pc' = "submit"
    /\ UNCHANGED <<aggVars, hierVars, topVars, cpu, submitted, poolVars, collected,
                   dir_sizes, dir_structures, interrupted, report>>

\* One turn of the loop of lines 242-243, or its end.
Submit ==
    /\ pc = "submit"
    /\ IF submitted < Len(top_dirs)
       THEN /\ wstate' = [wstate EXCEPT ![top_dirs[submitted + 1]] = "queued"]
            /\ submitted' = submitted + 1
            /\ pc' = pc
       ELSE /\ pc' = "collect"
            /\ UNCHANGED <<wstate, submitted>>
    /\ UNCHANGED <<aggVars, hierVars, topVars, cpu, top_dirs, wresult, runs, collected,
                   dir_sizes, dir_structures, interrupted, report>>

Running == { d \in Dirs : wstate[d] = "running" }

\* A pool thread takes the oldest queued task.
StartWork(d) ==
    /\ wstate[d] = "queued"
    /\ \A i \in 1..submitted : wstate[top_dirs[i]] = "queued" =>
            \A j \in 1..submitted : top_dirs[j] = d => j <= i
    /\ has_idle_worker(Cardinality(Running), cpu)
    /\ wstate' = [wstate EXCEPT ![d] = "running"]
    /\ runs' = [runs EXCEPT ![d] = @ + 1]
    /\ UNCHANGED <<aggVars, hierVars, topVars, pc, cpu, top_dirs, submitted, wresult,
                   collected, dir_sizes, dir_structures, interrupted, report>>

\* The task returns or raises; the future keeps the outcome.
FinishWork(d) ==
    /\ wstate[d] = "running"
    /\ LET r == get_dir_size_and_subdirs(fs, d)
       IN  /\ wresult' = [wresult EXCEPT ![d] = r]
           /\ wstate' = [wstate EXCEPT ![d] = IF r.raised THEN "raised" ELSE "done"]
    /\ UNCHANGED <<aggVars, hierVars, topVars, pc, cpu, top_dirs, submitted, runs,
                   collected, dir_sizes, dir_structures, interrupted, report>>

\* One turn of the loop of lines 246-253, or its end: future.result() waits
\* for the task, and an exception of the task is printed and nothing stored.
Collect ==
    /\ pc = "collect"
    /\ IF collected < Len(top_dirs)
       THEN LET dir_path == top_dirs[collected + 1]
            IN  /\ future_done(wstate[dir_path])
                /\ IF wstate[dir_path] = "raised"
                   THEN UNCHANGED <<dir_sizes, dir_structures>>
                   ELSE /\ dir_sizes' = Append(dir_sizes, <<dir_path, wresult[dir_path].size>>)
                        /\ dir_structures' =
                             [x \in DOMAIN dir_structures \cup {dir_path} |->
                                 IF x = dir_path THEN wresult[dir_path].subdirs
                                 ELSE dir_structures[x]]
                /\ collected' = collected + 1
                /\ pc' = pc
       ELSE /\ pc' = "shutdown"
            /\ UNCHANGED <<collected, dir_sizes, dir_structures>>
    /\ UNCHANGED <<aggVars, hierVars, topVars, cpu, top_dirs, submitted, poolVars,
                   interrupted, report>>

AllFinished == \A i \in 1..submitted : future_done(wstate[top_dirs[i]])

\* The end of the with block: shutdown(wait=True); then lines 256-258.
ShutdownAndRank ==
    /\ pc = "shutdown"
    /\ AllFinished
    /\ largest_dirs' = nlargest(MAX_RESULTS, dir_sizes)
    /\ ranked' = ranked \cup {"dirs"}
    /\ pc' = "returned"
    /\ UNCHANGED <<aggVars, hierVars, stream, scanned, large_files, largest_files, cpu,
                   top_dirs, submitted, poolVars, collected, dir_sizes, dir_structures,
                   interrupted, report>>

\* A KeyboardInterrupt raised in the main thread outside get_actual_disk_size:
\* no handler of scan_system catches it.  Inside the with block it first goes
\* through the pool's shutdown.
Interrupt ==
    /\ pc \in {"walk", "list", "submit", "collect", "shutdown"}
    /\ interrupted' = TRUE
    /\ pc' = IF pc \in {"walk", "list"} THEN "interrupt_handler" ELSE "unwinding"
    /\ UNCHANGED <<aggVars, hierVars, topVars, cpu, top_dirs, submitted, poolVars,
                   collected, dir_sizes, dir_structures, report>>

\* shutdown(wait=True) on the way out of the with block with the exception.
UnwindPool ==
    /\ pc = "unwinding"
    /\ AllFinished
    /\ pc' = "interrupt_handler"
    /\ UNCHANGED <<aggVars, hierVars, topVars, cpu, top_dirs, submitted, poolVars,
                   collected, dir_sizes, dir_structures, interrupted, report>>

\* Lines 366-367.
HandleInterrupt ==
    /\ pc = "interrupt_handler"
    /\ pc' = "done"
    /\ UNCHANGED <<aggVars, hierVars, topVars, cpu, top_dirs, submitted, poolVars,
                   collected, dir_sizes, dir_structures, interrupted, report>>

\* The hierarchies main prints (lines 354-359), in the order of largest_dirs.
RECURSIVE hierarchies(_, _, _)
hierarchies(fsys, dirs, structures) ==
    IF dirs = <<>> THEN <<>>
    ELSE LET dir_path == Head(dirs)[1]
             dir_size == Head(dirs)[2]
             structure == IF dir_path \in DOMAIN structures
                          THEN structures[dir_path] ELSE EmptyDict
         IN  (IF dir_size >= MIN_DIR_SIZE_HIERARCHY
              THEN print_dir_hierarchy(fsys, dir_path, dir_size, structure, 0,
                                       MIN_DIR_SIZE_HIERARCHY)
              ELSE <<>>)
             \o hierarchies(fsys, Tail(dirs), structures)

\* Lines 295-364: the two lists are printed, then the report file is opened
\* and, if that works, written together with the hierarchies.
Report ==
    /\ pc = "returned"
    /\ \E opened \in BOOLEAN :
          report' = [printed |-> TRUE,
                     file_written |-> opened,
                     files |-> largest_files,
                     dirs |-> largest_dirs,
                     hierarchy |-> IF opened
                                   THEN hierarchies(fs, largest_dirs, dir_structures)
                                   ELSE <<>>]
    /\ pc' = "done"
    /\ UNCHANGED <<aggVars, hierVars, topVars, cpu, top_dirs, submitted, poolVars,
                   collected, dir_sizes, dir_structures, interrupted>>

Next ==
    \/ WalkFile
    \/ InterruptInStat
    \/ RankFiles
    \/ ListTopDirs
    \/ Submit
    \/ \E d \in Dirs : StartWork(d)
    \/ \E d \in Dirs : FinishWork(d)
    \/ Collect
    \/ ShutdownAndRank
    \/ Interrupt
    \/ UnwindPool
    \/ HandleInterrupt
    \/ Report

Spec == Init /\ [][Next]_vars

\* ------------------------------------------- properties of the Aggregator
\* The directories strictly between a and d, and d itself, when d lies below a.
RECURSIVE PathBelow(_, _, _)
PathBelow(fsys, a, d) ==
    IF d = a \/ d = start_path THEN {}
    ELSE {d} \cup PathBelow(fsys, a, fsys.parent[d])

RECURSIVE IsUnder(_, _, _)
IsUnder(fsys, a, d) ==
    IF d = a THEN TRUE
    ELSE IF d = start_path THEN FALSE
    ELSE IsUnder(fsys, a, fsys.parent[d])

\* The resolved footprint of a directory's own file.
Footprint(fsys, d) ==
    IF fsys.file[d].present /\ fsys.file[d].stat_ok
    THEN fsys.file[d].st_blocks * BLOCK
    ELSE 0

\* The directories of the subtree of a whose files a walk from a reads: every
\* directory on the way down can be entered and listed.
Readable(fsys, a) ==
    { d \in AllDirs :
        /\ IsUnder(fsys, a, d)
        /\ access(fsys, a) # "denied"
        /\ \A e \in PathBelow(fsys, a, d) : access(fsys, e) \in {"ok", "deep"} }

ExcludedName(fsys, d) ==
    \/ fsys.profile[d].prefix = <<".">>
    \/ fsys.profile[d].prefix = <<"$">>
    \/ fsys.profile[d].prefix = <<"System Volume Information">>

TotalFootprint(fsys, S) == SumOver([d \in S |-> Footprint(fsys, d)], S)

\* C1: the size get_dir_size_and_subdirs returns for a directory is the sum of
\* the footprints of the files below it, leaving out the files under a
\* subdirectory (at any depth) whose name starts with '.', '$' or the reserved
\* volume name, unreadable entries counting as zero.
C1_SizeExcludesSystemDirs ==
    agg # NotRun =>
        \A a \in AllDirs :
            ~agg[a].raised =>
                agg[a].size =
                    TotalFootprint(fs,
                        { d \in Readable(fs, a) :
                            \A e \in PathBelow(fs, a, d) : ~ExcludedName(fs, e) })

\* C6: when a nested directory n below a cannot be listed and nothing else
\* below a fails otherwise, the call on a returns, n contributes 0
\* and is no recorded child, and the size of a is the sum of the other files.
NestedDenied(a, n) ==
    /\ n # a
    /\ fs.parent[n] \in Readable(fs, a)
    /\ access(fs, n) = "denied"
    /\ \A d \in Readable(fs, a) : access(fs, d) # "deep"

C6_InaccessibleNestedIsolated ==
    agg # NotRun =>
        \A a \in AllDirs, n \in Dirs :
            NestedDenied(a, n) =>
                /\ ~agg[a].raised
                /\ agg[n] = Returned(0, EmptyDict)
                /\ n \notin DOMAIN agg[fs.parent[n]].subdirs
                /\ agg[a].size =
                     TotalFootprint(fs,
                        { d \in AllDirs \ {n} :
                            /\ IsUnder(fs, a, d)
                            /\ ~IsUnder(fs, n, d)
                            /\ \A e \in PathBelow(fs, a, d) : access(fs, e) = "ok" })

\* C6 witness: a directory that cannot be listed lies two levels below an
\* aggregated directory whose other files give it a positive size.
C6_Witness ==
    /\ agg # NotRun
    /\ \E a \in AllDirs, n \in Dirs :
        /\ NestedDenied(a, n)
        /\ fs.parent[n] # a
        /\ fs.file[n].present
        /\ agg[a].size > 0

\* C9: every returned node records exactly the subdirectories whose computed
\* size is positive, each with its own size and structure, and its size is the
\* footprint of its direct files plus the sizes of the recorded children.
Computed(d) ==
    { c \in Dirs : fs.parent[c] = d /\ access(fs, c) # "entry_error" }

C9_NodeWellFormed ==
    agg # NotRun =>
        \A d \in AllDirs :
            (~agg[d].raised /\ access(fs, d) # "denied") =>
                LET kids == DOMAIN agg[d].subdirs
                IN  /\ kids = { c \in Computed(d) : agg[c].size > 0 }
                    /\ \A c \in kids :
                          agg[d].subdirs[c] = <<agg[c].size, agg[c].subdirs>>
                    /\ agg[d].size =
                          Footprint(fs, d)
                          + SumOver([c \in kids |-> agg[d].subdirs[c][1]], kids)

\* C9 witness: a node with one recorded child and one empty child left out.
C9_Witness ==
    /\ agg # NotRun
    /\ \E d \in AllDirs, c1, c2 \in Dirs :
        /\ ~agg[d].raised
        /\ c1 \in DOMAIN agg[d].subdirs
        /\ c2 \in Computed(d)
        /\ agg[c2] = Returned(0, EmptyDict)
        /\ access(fs, c2) = "ok"
        /\ c2 \notin DOMAIN agg[d].subdirs

\* ------------------------------------------- properties of the TopNSelector
Range(s) == { s[i] : i \in 1..Len(s) }

Orderings(n) == { p \in [1..n -> 1..n] : \A i, j \in 1..n : p[i] = p[j] => i = j }

Permuted(s, p) == [i \in 1..Len(s) |-> s[p[i]]]

Sizes(s) == [i \in 1..Len(s) |-> key(s[i])]

\* The place of a record in a sequence without repetitions.
IndexOf(s, r) == CHOOSE i \in 1..Len(s) : s[i] = r

\* Records of equal size come out in the order they went in.
TiesInInputOrder(input, out) ==
    \A i, j \in 1..Len(out) :
        (i < j /\ key(out[i]) = key(out[j])) =>
            IndexOf(input, out[i]) < IndexOf(input, out[j])

\* No two records of equal size lie on the two sides of the cutoff.
NoTieAtCutoff(input, out) ==
    \A r \in Range(input) \ Range(out) : \A q \in Range(out) : key(r) # key(q)

\* C3 as stated: every permutation of the input gives the same set of records,
\* and records of equal size keep their first-seen order.
C3_SameSetUnderPermutation ==
    ("dirs" \in ranked) =>
        \A p \in Orderings(Len(scanned)) :
            LET other == nlargest(MAX_RESULTS, Permuted(scanned, p))
            IN  /\ Range(other) = Range(largest_dirs)
                /\ TiesInInputOrder(Permuted(scanned, p), other)

\* C3 amended: every permutation gives the same sizes, the same set of records
\* when no tie straddles the cutoff, and ties in the order of the input it was fed.
C3_SameSizesUnderPermutation ==
    ("dirs" \in ranked) =>
        /\ TiesInInputOrder(scanned, largest_dirs)
        /\ \A p \in Orderings(Len(scanned)) :
            LET other == nlargest(MAX_RESULTS, Permuted(scanned, p))
            IN  /\ Sizes(other) = Sizes(largest_dirs)
                /\ NoTieAtCutoff(scanned, largest_dirs) =>
                       Range(other) = Range(largest_dirs)
                /\ TiesInInputOrder(Permuted(scanned, p), other)

\* C3 witness: more records than MAX_RESULTS were ranked, two of them of equal
\* size came out, and a record of a different size was cut off.
C3_Witness ==
    /\ "dirs" \in ranked
    /\ Len(scanned) > MAX_RESULTS
    /\ Len(largest_dirs) = MAX_RESULTS
    /\ key(largest_dirs[1]) = key(largest_dirs[2])
    /\ NoTieAtCutoff(scanned, largest_dirs)

\* What the selection owes its input: min(n, K) records of the input, in
\* non-increasing order of size, none smaller than a record left out.
TopOf(input, out) ==
    /\ Len(out) = (IF Len(input) < MAX_RESULTS THEN Len(input) ELSE MAX_RESULTS)
    /\ Range(out) \subseteq Range(input)
    /\ Cardinality(Range(out)) = Len(out)
    /\ \A i \in 1..(Len(out) - 1) : key(out[i]) >= key(out[i + 1])
    /\ \A r \in Range(input) \ Range(out) : \A q \in Range(out) : key(r) <= key(q)

\* C4: both selections return min(n, K) records in non-increasing order of
\* size, every record left out being no larger than a returned one; the
\* returned files are of at least MIN_FILE_SIZE; sizes 5,3,9,1,7 give 9,7.
C4_TopKShape ==
    /\ ("files" \in ranked) =>
          /\ TopOf(large_files, largest_files)
          /\ \A r \in Range(largest_files) : key(r) >= MIN_FILE_SIZE
          /\ \A i \in 1..Len(scanned) :
                (scanned[i][2] >= MIN_FILE_SIZE) =>
                    <<scanned[i][1], scanned[i][2], FALSE>> \in Range(large_files)
    /\ ("dirs" \in ranked) =>
          /\ TopOf(scanned, largest_dirs)
          /\ (Sizes(scanned) = <<5 * BLOCK, 3 * BLOCK, 9 * BLOCK, BLOCK, 7 * BLOCK>>) =>
                Sizes(largest_dirs) = <<9 * BLOCK, 7 * BLOCK>>

\* C4 witness: the documented scenario has been ranked, files and directories.
C4_Witness ==
    /\ ranked = {"files", "dirs"}
    /\ Sizes(scanned) = <<5 * BLOCK, 3 * BLOCK, 9 * BLOCK, BLOCK, 7 * BLOCK>>
    /\ Sizes(largest_files) = <<9 * BLOCK, 7 * BLOCK>>
    /\ Sizes(largest_dirs) = <<9 * BLOCK, 7 * BLOCK>>

\* Streams of length 0 and 1 (n = 0, n < K) are initial states of SpecTop too.

\* ----------------------------------------- properties of the HierarchyFilter
\* The nodes of a structure, each with its size, its depth below the root of
\* the call and the sizes of the nodes on the way to it.
RECURSIVE NodesOf(_, _, _)
NodesOf(structure, depth, above) ==
    UNION { { [node |-> c, size |-> structure[c][1], depth |-> depth,
               above |-> above] }
            \cup NodesOf(structure[c][2], depth + 1, above \cup {structure[c][1]})
          : c \in DOMAIN structure }

\* C5: apart from the root of the call, a line is written exactly for the nodes
\* that, like every node above them, are of at least min_size; a smaller node
\* is left out with its subtree; every line shows the size its node has in the
\* structure (the root's is the size passed in) and the structure passed in is
\* still the one the aggregation returned.
C5_HierarchyThreshold ==
    printed # <<>> =>
        LET nodes == NodesOf(hier.structure, 1, {})
            shown == { n \in nodes :
                         /\ n.size >= hier.min_size
                         /\ \A a \in n.above : a >= hier.min_size }
        IN  /\ printed[1] = output_line(fs, hier.path, hier.size, 0)
            /\ { [node |-> printed[i].node, depth |-> printed[i].indent,
                  text |-> printed[i].size_text] : i \in 2..Len(printed) }
               = { [node |-> n.node, depth |-> n.depth, text |-> format_size(n.size)]
                   : n \in shown }
            /\ Len(printed) = 1 + Cardinality(shown)
            /\ \A i \in 2..Len(printed) :
                  \E n \in nodes : n.node = printed[i].node /\ n.size >= hier.min_size
            /\ hier.size = get_dir_size_and_subdirs(fs, hier.path).size
            /\ hier.structure = get_dir_size_and_subdirs(fs, hier.path).subdirs

\* C5 witness: a child below min_size was left out under a root whose line
\* shows a size that counts it, and another child was printed.
C5_Witness ==
    /\ Len(printed) >= 2
    /\ \E n \in NodesOf(hier.structure, 1, {}) :
          /\ n.size < hier.min_size
          /\ n.size > 0
          /\ \A i \in 1..Len(printed) : printed[i].node # n.node
    /\ printed[1].size_text = format_size(hier.size)
    /\ hier.size >= hier.min_size

\* ---------------------------------------------- properties of the Scheduler
TopDirSet == { top_dirs[i] : i \in 1..Len(top_dirs) }

SizeEntries(d) == { i \in 1..Len(dir_sizes) : dir_sizes[i][1] = d }

\* The loop of lines 246-253 has been through every future.
SchedulingFinished ==
    /\ pc \in {"shutdown", "returned", "done"}
    /\ collected = Len(top_dirs)

\* C2: once the scheduling step is over, dir_sizes and dir_structures hold one
\* entry for every submitted top-level directory; a directory whose
\* aggregation failed (not listable, or its task raised) is mapped to size 0
\* and an empty tree, and the others keep what their tasks returned.
C2_EveryTopDirRecorded ==
    SchedulingFinished =>
        \A d \in TopDirSet :
            /\ Cardinality(SizeEntries(d)) = 1
            /\ d \in DOMAIN dir_structures
            /\ \A i \in SizeEntries(d) :
                  IF wstate[d] = "raised" \/ access(fs, d) = "denied"
                  THEN dir_sizes[i][2] = 0 /\ dir_structures[d] = EmptyDict
                  ELSE /\ dir_sizes[i][2] = wresult[d].size
                       /\ dir_structures[d] = wresult[d].subdirs

\* C7: the ranked directory list exists, scan_system has returned or its
\* exception has reached main, only when no submitted task is queued or running.
C7_Barrier ==
    (\/ pc \in {"returned", "interrupt_handler", "done"}
     \/ "dirs" \in ranked
     \/ report.printed)
    => \A d \in Dirs : wstate[d] \notin {"queued", "running"}

\* C7 witness: scan_system has returned after two tasks, one of which raised.
C7_Witness ==
    /\ pc = "returned"
    /\ submitted >= 2
    /\ \E d, e \in Dirs : wstate[d] = "done" /\ wstate[e] = "raised"

\* C8: after a KeyboardInterrupt raised while scan_system ran, main prints and
\* writes nothing of the scan's results.
C8_InterruptDiscardsResults ==
    interrupted => report = NoReport

\* C10: at most MAX_WORKERS aggregations run at a time, none is started twice,
\* and when the with block is left every submitted directory has been
\* aggregated once; scan_system returns with every top-level directory it
\* listed aggregated once and no other.
C10_BoundedPoolRunsOnce ==
    /\ Cardinality(Running) <= max_workers(cpu)
    /\ \A d \in Dirs :
          /\ runs[d] <= 1
          /\ runs[d] = 1 <=> wstate[d] \in {"running", "done", "raised"}
    /\ pc \in {"returned", "interrupt_handler", "done"} =>
          \A i \in 1..submitted : runs[top_dirs[i]] = 1
    /\ (pc = "returned" \/ report.printed) =>
          \A d \in Dirs : runs[d] = (IF d \in TopDirSet THEN 1 ELSE 0)

\* C10 witness: with one worker and two submitted directories, one task has
\* finished and the next one runs while the main thread collects.
C10_Witness ==
    /\ max_workers(cpu) = 1
    /\ Len(top_dirs) > max_workers(cpu)
    /\ pc = "collect"
    /\ \E d, e \in Dirs : wstate[d] = "done" /\ wstate[e] = "running"

====
